---- MODULE Spec2Model ----
(***************************************************************************)
(* Chunked file transfer over a Discord channel: DiscordService            *)
(* (splitFile, uploadChunk, uploadFile, findFileParts, mergeFiles,         *)
(* downloadFile), the POST /api/upload and POST /api/download routes, the  *)
(* BatchService runners and the file / batch tables they write.            *)
(*                                                                         *)
(* Representation.                                                         *)
(*  - A filename is a sequence of tokens.  The token ".part" stands for    *)
(*    the five characters ".part"; every other token is one character      *)
(*    that cannot take part in an occurrence of ".part".                   *)
(*  - A byte buffer is a sequence of intervals [u, lo, hi): the bytes at   *)
(*    offsets lo .. hi-1 of the buffer handed to upload attempt u          *)
(*    (u = the id of the file row of that attempt).  Adjacent intervals    *)
(*    are merged, so two buffers are equal exactly when they hold the      *)
(*    same bytes in the same order, for contents whose bytes are all       *)
(*    different (the most general content).                                *)
(***************************************************************************)
EXTENDS Integers, Sequences, FiniteSets, TLC

(***************************************************************************)
(* Program constants                                                       *)
(***************************************************************************)
CHUNK_SIZE == 9 * 1024 * 1024
UPLOAD_LARGE_THRESHOLD == 10 * 1024 * 1024
ROUTE_LARGE_THRESHOLD == 10 * 1024 * 1024
BATCH_LARGE_THRESHOLD == 8 * 1024 * 1024
LIST_LIMIT == 100

(***************************************************************************)
(* Strings                                                                 *)
(***************************************************************************)
PART == ".part"
Digits == <<"0", "1", "2", "3", "4", "5", "6", "7", "8", "9">>
NaN == -1

DigitValue(t) == IF \E i \in 1..10 : Digits[i] = t
                 THEN (CHOOSE i \in 1..10 : Digits[i] = t) - 1
                 ELSE NaN

RECURSIVE ToDigits(_)
\* `${i + 1}`: the decimal representation of a non-negative integer
ToDigits(n) == IF n < 10 THEN <<Digits[n + 1]>>
               ELSE Append(ToDigits(n \div 10), Digits[(n % 10) + 1])

RECURSIVE ParseDigits(_, _)
ParseDigits(s, acc) ==
    IF s = <<>> \/ DigitValue(Head(s)) = NaN THEN acc
    ELSE ParseDigits(Tail(s), acc * 10 + DigitValue(Head(s)))

\* parseInt(s, 10): the leading run of digits, NaN when there is none
\* (and for undefined, which is how the absent segment is passed here)
ParseInt(s) == IF s = <<>> \/ DigitValue(Head(s)) = NaN THEN NaN
               ELSE ParseDigits(s, 0)

RECURSIVE UpToPart(_)
\* the tokens of s before its first ".part"
UpToPart(s) == IF s = <<>> \/ Head(s) = PART THEN <<>>
               ELSE <<Head(s)>> \o UpToPart(Tail(s))

RECURSIVE AfterFirstPart(_)
\* the tokens of s after its first ".part"; <<>> when there is none
AfterFirstPart(s) == IF s = <<>> THEN <<>>
                     ELSE IF Head(s) = PART THEN Tail(s)
                     ELSE AfterFirstPart(Tail(s))

\* name.split('.part')[1]: the segment between the first and the second
\* ".part" (undefined, modelled as <<>>, when the name has no ".part")
SplitPart1(name) == UpToPart(AfterFirstPart(name))

\* the sort key of both sorts: parseInt(x.split('.part')[1], 10)
PartKey(name) == ParseInt(SplitPart1(name))

\* name.startsWith(prefix)
StartsWith(name, prefix) ==
    /\ Len(name) >= Len(prefix)
    /\ SubSeq(name, 1, Len(prefix)) = prefix

\* `${filename}.part${n}`
PartName(filename, n) == filename \o <<PART>> \o ToDigits(n)

\* (a, b) => partA - partB, as Array.prototype.sort reads it: a NaN
\* result counts as 0
PartCompare(a, b) ==
    IF PartKey(a) = NaN \/ PartKey(b) = NaN THEN 0 ELSE PartKey(a) - PartKey(b)

RECURSIVE InsertByPart(_, _)
InsertByPart(s, x) ==
    IF s = <<>> THEN <<x>>
    ELSE IF PartCompare(s[Len(s)].filename, x.filename) > 0
         THEN Append(InsertByPart(SubSeq(s, 1, Len(s) - 1), x), s[Len(s)])
         ELSE Append(s, x)

RECURSIVE SortByPart(_)
\* Array.prototype.sort with the part comparator, over entries that carry a
\* filename: a stable sort (entries that compare equal keep their order)
SortByPart(s) ==
    IF s = <<>> THEN <<>>
    ELSE InsertByPart(SortByPart(SubSeq(s, 1, Len(s) - 1)), s[Len(s)])

(***************************************************************************)
(* Buffers                                                                 *)
(***************************************************************************)
\* buffer.slice(start, end) of the buffer of upload attempt u
Slice(u, start, end) ==
    IF start >= end THEN <<>> ELSE <<[u |-> u, lo |-> start, hi |-> end]>>

\* the whole buffer (file.buffer) of upload attempt u, size bytes long
Buffer(u, size) == Slice(u, 0, size)

\* fs.appendFileSync(path, chunkData): the bytes of d2 after those of d1
AppendBytes(d1, d2) ==
    IF d1 = <<>> THEN d2
    ELSE IF d2 = <<>> THEN d1
    ELSE LET a == d1[Len(d1)]
             b == d2[1]
         IN IF a.u = b.u /\ a.hi = b.lo
            THEN SubSeq(d1, 1, Len(d1) - 1)
                   \o <<[u |-> a.u, lo |-> a.lo, hi |-> b.hi]>>
                   \o Tail(d2)
            ELSE d1 \o d2

RECURSIVE ByteLength(_)
ByteLength(d) == IF d = <<>> THEN 0
                 ELSE (Head(d).hi - Head(d).lo) + ByteLength(Tail(d))

Min(a, b) == IF a < b THEN a ELSE b

\* a chunk count that is one too many for a multiple of the chunk size
TotalChunksFloorPlusOne(length) == (length \div CHUNK_SIZE) + 1

\* Math.ceil(length / CHUNK_SIZE)
TotalChunks(length) == (length + CHUNK_SIZE - 1) \div CHUNK_SIZE

\* splitFile: chunk i+1 holds bytes [i * CHUNK_SIZE, min(.. + CHUNK_SIZE, length))
\* and is written as <basename>.part<i+1>
splitFile(u, filename, length) ==
    [k \in 1..TotalChunks(length) |->
        [filename |-> PartName(filename, k),
         data |-> Slice(u, (k - 1) * CHUNK_SIZE,
                        Min((k - 1) * CHUNK_SIZE + CHUNK_SIZE, length))]]

(***************************************************************************)
(* The remote channel                                                      *)
(***************************************************************************)
\* HTTP outcomes of one remote call: 200, or a failure (0: no response)
OK == 200
FailStatuses == {401, 403, 404, 429, 500, 0}

\* response.data.message of a failed call ("" when the body carries none)
RemoteMessage(st) == IF st = 429 THEN "You are being rate limited." ELSE ""

\* error.message of the rejected request
TransportMessage(st) ==
    IF st = 0 THEN "Network Error" ELSE "Request failed with status code"

NoError == [msg |-> "", detail |-> ""]

\* the catch block without its 403 branch
UploadErrorNo403(st) ==
    IF st = 401 THEN [msg |-> "Invalid Discord token", detail |-> ""]
    ELSE IF st = 404 THEN [msg |-> "Channel not found", detail |-> ""]
    ELSE [msg |-> "Discord API error",
          detail |-> IF RemoteMessage(st) # "" THEN RemoteMessage(st)
                     ELSE TransportMessage(st)]

\* the catch blocks of uploadChunk and uploadFile
UploadError(st) ==
    IF st = 401 THEN [msg |-> "Invalid Discord token", detail |-> ""]
    ELSE IF st = 403
    THEN [msg |-> "Bot does not have permission to upload files to this channel",
          detail |-> ""]
    ELSE IF st = 404 THEN [msg |-> "Channel not found", detail |-> ""]
    ELSE [msg |-> "Discord API error",
          detail |-> IF RemoteMessage(st) # "" THEN RemoteMessage(st)
                     ELSE TransportMessage(st)]

\* the catch block of downloadFile
DownloadError(st) ==
    IF st = 401 THEN [msg |-> "Invalid Discord token", detail |-> ""]
    ELSE IF st = 403
    THEN [msg |-> "Bot does not have permission to access this channel",
          detail |-> ""]
    ELSE IF st = 404 THEN [msg |-> "Channel not found", detail |-> ""]
    ELSE [msg |-> "Discord API error",
          detail |-> IF RemoteMessage(st) # "" THEN RemoteMessage(st)
                     ELSE TransportMessage(st)]

\* count messages of the channel: one message that carries one attachment
\* (kind "file"), or a run of messages without attachment; by / part say
\* which upload attempt posted it and as which part (0: the whole file)
Attachment(filename, data, by, part) ==
    [kind |-> "file", count |-> 1, filename |-> filename, data |-> data,
     by |-> by, part |-> part]

RECURSIVE Newest(_, _)
\* the attachments among the limit newest messages of history ch, newest
\* first, each with the position of its message (which stands for its url)
Newest(ch, limit) ==
    IF ch = <<>> \/ limit <= 0 THEN <<>>
    ELSE LET m == ch[Len(ch)]
             rest == SubSeq(ch, 1, Len(ch) - 1)
         IN IF m.kind = "file"
            THEN <<[filename |-> m.filename, url |-> Len(ch)]>>
                   \o Newest(rest, limit - 1)
            ELSE Newest(rest, limit - m.count)

\* GET /channels/{id}/messages?limit=100
ListMessages(ch) == Newest(ch, LIST_LIMIT)

\* the entries of sequence s that satisfy Keep, in order
RECURSIVE SelectParts(_, _)
SelectParts(s, prefix) ==
    IF s = <<>> THEN <<>>
    ELSE IF StartsWith(Head(s).filename, prefix)
         THEN <<Head(s)>> \o SelectParts(Tail(s), prefix)
         ELSE SelectParts(Tail(s), prefix)

\* findFileParts after a successful listing: the attachments whose name
\* starts with `${filename}.part`, sorted by the part comparator
findFileParts(listing, filename) ==
    SortByPart(SelectParts(listing, filename \o <<PART>>))

\* a search that takes the first attachment whose name begins with filename
FindFileUrlPrefix(listing, filename) ==
    IF \E i \in 1..Len(listing) : StartsWith(listing[i].filename, filename)
    THEN listing[CHOOSE i \in 1..Len(listing) :
                    /\ StartsWith(listing[i].filename, filename)
                    /\ \A j \in 1..(i - 1) :
                          ~StartsWith(listing[j].filename, filename)].url
    ELSE 0

\* downloadFile, isLarge = false: the url of the first attachment of the
\* listing whose name is filename, 0 (null) when there is none
FindFileUrl(listing, filename) ==
    IF \E i \in 1..Len(listing) : listing[i].filename = filename
    THEN listing[CHOOSE i \in 1..Len(listing) :
                    /\ listing[i].filename = filename
                    /\ \A j \in 1..(i - 1) : listing[j].filename # filename].url
    ELSE 0

(***************************************************************************)
(* Temporary files of one transfer: a set of [name, data], one per name    *)
(***************************************************************************)
HasFile(tmp, name) == \E f \in tmp : f.name = name
ReadFile(tmp, name) == (CHOOSE f \in tmp : f.name = name).data
WriteFile(tmp, name, data) ==
    {f \in tmp : f.name # name} \cup {[name |-> name, data |-> data]}
Unlink(tmp, name) == {f \in tmp : f.name # name}

RECURSIVE AppendChunks(_, _, _)
\* the loop of mergeFiles over the sorted chunk paths: read, append, unlink;
\* reading a path that is no longer there throws (ENOENT)
AppendChunks(paths, tmp, out) ==
    IF paths = <<>> THEN [ok |-> TRUE, data |-> out, tmp |-> tmp]
    ELSE IF ~HasFile(tmp, Head(paths).filename)
         THEN [ok |-> FALSE, data |-> out, tmp |-> tmp]
         ELSE AppendChunks(Tail(paths),
                           Unlink(tmp, Head(paths).filename),
                           AppendBytes(out, ReadFile(tmp, Head(paths).filename)))

\* mergeFiles(chunkFiles, outputPath)
mergeFiles(chunkFiles, tmp) == AppendChunks(SortByPart(chunkFiles), tmp, <<>>)

(***************************************************************************)
(* State                                                                   *)
(***************************************************************************)
VARIABLES
    channel,     \* the message history of the Discord channel, oldest first
    channels,    \* table channels; the id of a row is its position
    files,       \* table files; the id of a row is its position
    fileParts,   \* table file_parts
    batches,     \* table batch_operations; the id of a row is its position
    batchItems,  \* table batch_operation_items
    now,         \* the clock Date.now() reads, in milliseconds
    req,         \* the requests in progress, one per slot
    attempt      \* per file row: what its upload attempt did (history)

vars == <<channel, channels, files, fileParts, batches, batchItems, now, req,
          attempt>>

\* bounds of the exploration
MaxFiles == 2
MaxBatchFiles == 3
MaxBatches == 1
MaxSplitChunks == 5
MaxClock == 2

Slots == {"r1", "r2"}
Main == "r1"
F == <<"f">>
FP1 == <<"f", PART, "1">>
Names == {F, FP1}
\* sizes around the threshold of uploadFile and a multiple of the chunk
\* size: direct, two chunks, two full chunks, three chunks
Sizes == {UPLOAD_LARGE_THRESHOLD, UPLOAD_LARGE_THRESHOLD + 1,
          2 * CHUNK_SIZE, 2 * CHUNK_SIZE + 1}
BatchSizes == {BATCH_LARGE_THRESHOLD + 1, UPLOAD_LARGE_THRESHOLD + 1}

Idle ==
    [op |-> "idle", pc |-> "idle", name |-> <<>>, size |-> 0, fileId |-> 0,
     large |-> FALSE, idx |-> 0, chunkFiles |-> <<>>, messageIds |-> <<>>,
     fileParts |-> <<>>, downloadedParts |-> <<>>, fileUrl |-> 0, tmp |-> {},
     result |-> <<>>, error |-> NoError, status |-> 0,
     batchId |-> 0, queue |-> <<>>, total |-> 0, completedFiles |-> 0,
     itemId |-> 0, list |-> <<>>, notes |-> <<>>,
     lists |-> 0, fetchLog |-> <<>>, dir |-> <<>>, channelRow |-> 0]

Init ==
    /\ channel = <<>>
    /\ channels = <<>>
    /\ files = <<>>
    /\ fileParts = <<>>
    /\ batches = <<>>
    /\ batchItems = <<>>
    /\ now = 0
    /\ req = [r \in Slots |-> Idle]
    /\ attempt = <<>>

(***************************************************************************)
(* storage                                                                 *)
(***************************************************************************)
\* the Discord channel every request names (channel_id)
ChannelId == "c"

\* storage.getChannelByDiscordId: the id of the row, 0 when there is none
getChannelByDiscordId(discordId) ==
    IF \E i \in 1..Len(channels) : channels[i].discord_channel_id = discordId
    THEN CHOOSE i \in 1..Len(channels) :
            /\ channels[i].discord_channel_id = discordId
            /\ \A j \in 1..(i - 1) : channels[j].discord_channel_id # discordId
    ELSE 0

\* storage.createChannel; last_used defaults to now
createChannel(discordId) ==
    Append(channels, [discord_channel_id |-> discordId, last_used |-> 0])

\* storage.updateChannelLastUsed: last_used becomes new Date(), a value
\* other than the one it held (the timestamps count modulo 2 here)
updateChannelLastUsed(id) ==
    [channels EXCEPT ![id].last_used = (@ + 1) % 2]

\* the unique constraint on channels.discord_channel_id rejects the insert
UniqueViolation(discordId) == getChannelByDiscordId(discordId) # 0

DuplicateKey ==
    [msg |-> "duplicate key value violates unique constraint", detail |-> ""]

\* a file row that is born complete
createFileComplete(filename, size, type) ==
    Append(files, [filename |-> filename, original_filename |-> filename,
                   size_bytes |-> size, type |-> type,
                   upload_complete |-> TRUE, discord_message_id |-> 0])

\* storage.createFile
createFile(filename, size, type) ==
    Append(files, [filename |-> filename, original_filename |-> filename,
                   size_bytes |-> size, type |-> type,
                   upload_complete |-> FALSE, discord_message_id |-> 0])

\* storage.updateFileUploadComplete
updateFileUploadComplete(id, messageId) ==
    [files EXCEPT ![id].upload_complete = TRUE,
                  ![id].discord_message_id = messageId]

\* storage.createFilePart
createFilePart(fileId, partNumber, size) ==
    Append(fileParts, [file_id |-> fileId, part_number |-> partNumber,
                       size_bytes |-> size, discord_message_id |-> 0,
                       upload_complete |-> FALSE])

\* storage.updateFilePartUploadComplete
updateFilePartUploadComplete(id, messageId) ==
    [fileParts EXCEPT ![id].upload_complete = TRUE,
                      ![id].discord_message_id = messageId]

\* history of one upload attempt: the posts it made, the part whose post
\* failed (0: none), whether uploadFile returned a message id, the parts
\* whose post is awaiting its answer, the pacing delays that elapsed
NewAttempt == [posts |-> 0, failedAt |-> 0, returned |-> FALSE,
               inFlight |-> {}, delays |-> 0]

(***************************************************************************)
(* POST /api/upload                                                        *)
(***************************************************************************)
\* the size test of the route
RouteIsLarge(size) == size > ROUTE_LARGE_THRESHOLD

\* the handler up to the call of uploadFile: the channel row is created or
\* its last_used updated, and the file row is created
UploadRequest(r, name, size) ==
    /\ req[r].op = "idle"
    /\ Len(files) < MaxFiles
    /\ channels' = IF getChannelByDiscordId(ChannelId) = 0
                   THEN createChannel(ChannelId)
                   ELSE updateChannelLastUsed(getChannelByDiscordId(ChannelId))
    /\ files' = createFile(name, size,
                           IF RouteIsLarge(size) THEN "large_chunked" ELSE "normal")
    /\ attempt' = Append(attempt, NewAttempt)
    /\ req' = [req EXCEPT ![r] =
                 [Idle EXCEPT !.op = "upload", !.pc = "uploadFile",
                              !.name = name, !.size = size,
                              !.fileId = Len(files) + 1]]
    /\ UNCHANGED <<now, channel, fileParts, batches, batchItems>>

\* the handler in two steps.  First: the request arrives and the channel
\* row is looked up
UploadLookup(r, name, size) ==
    /\ req[r].op = "idle"
    /\ Len(files) < MaxFiles
    /\ req' = [req EXCEPT ![r] =
                 [Idle EXCEPT !.op = "upload", !.pc = "channel",
                              !.name = name, !.size = size,
                              !.channelRow = getChannelByDiscordId(ChannelId)]]
    /\ UNCHANGED <<now, channels, channel, files, fileParts, batches, batchItems,
                   attempt>>

\* second: the row is created when the lookup found none, else its
\* last_used is updated; then the file row is created.  An insert the
\* unique constraint rejects throws into the catch block of the handler,
\* which answers 500
UploadResolve(r) ==
    /\ req[r].pc = "channel"
    /\ IF req[r].channelRow = 0 /\ UniqueViolation(ChannelId)
       THEN /\ req' = [req EXCEPT ![r].pc = "done", ![r].error = DuplicateKey]
            /\ UNCHANGED <<channels, files, attempt>>
       ELSE /\ channels' = IF req[r].channelRow = 0
                           THEN createChannel(ChannelId)
                           ELSE updateChannelLastUsed(req[r].channelRow)
            /\ files' = createFile(req[r].name, req[r].size,
                                   IF RouteIsLarge(req[r].size)
                                   THEN "large_chunked" ELSE "normal")
            /\ attempt' = Append(attempt, NewAttempt)
            /\ req' = [req EXCEPT ![r].pc = "uploadFile",
                                  ![r].fileId = Len(files) + 1]
    /\ UNCHANGED <<now, channel, fileParts, batches, batchItems>>

(***************************************************************************)
(* DiscordService.uploadFile                                               *)
(***************************************************************************)
\* where the caller of uploadFile goes on when it returns / throws
AfterUpload(rq) == IF rq.op = "upload" THEN "complete" ELSE "batch_complete"
AfterUploadError(rq) == IF rq.op = "upload" THEN "done" ELSE "batch_error"

\* a size test that also chunks a file of exactly the threshold
IsLargeFileInclusive(size) == size >= UPLOAD_LARGE_THRESHOLD

\* the size test of uploadFile
IsLargeFile(size) == size > UPLOAD_LARGE_THRESHOLD

\* createTempDir: the directory is named after the clock
createTempDir(t) == <<"discord-file-upload-", t>>

\* the temporary file and the chunk files splitFile writes
ChunkTmp(rq) ==
    {[name |-> rq.name, data |-> Buffer(rq.fileId, rq.size)]}
    \cup {[name |-> c.filename, data |-> c.data] :
            c \in {splitFile(rq.fileId, rq.name, rq.size)[k] :
                     k \in 1..TotalChunks(rq.size)}}

\* entry: the size test; a large file is written out and split
UploadFileBegin(r) ==
    /\ req[r].pc = "uploadFile"
    /\ req' = [req EXCEPT ![r] =
                 IF ~IsLargeFile(req[r].size)
                 THEN [req[r] EXCEPT !.pc = "post"]
                 ELSE [req[r] EXCEPT
                         !.pc = "chunk", !.large = TRUE, !.idx = 1,
                         !.dir = createTempDir(now),
                         !.tmp = ChunkTmp(req[r]),
                         !.chunkFiles =
                            [k \in 1..TotalChunks(req[r].size) |->
                               splitFile(req[r].fileId, req[r].name,
                                         req[r].size)[k].filename]]]
    /\ UNCHANGED <<now, channels, channel, files, fileParts, batches, batchItems, attempt>>

\* small file: the one post of the whole buffer
PostFile(r, st) ==
    /\ req[r].pc = "post"
    /\ attempt' = [attempt EXCEPT ![req[r].fileId].posts = @ + 1,
                                  ![req[r].fileId].failedAt =
                                      IF st = OK THEN @ ELSE 1,
                                  ![req[r].fileId].returned = (st = OK)]
    /\ IF st = OK
       THEN /\ channel' = Append(channel,
                             Attachment(req[r].name,
                                        Buffer(req[r].fileId, req[r].size),
                                        req[r].fileId, 0))
            /\ req' = [req EXCEPT ![r].pc = AfterUpload(req[r]),
                                  ![r].messageIds = <<Len(channel) + 1>>,
                                  ![r].status = st]
       ELSE /\ channel' = channel
            /\ req' = [req EXCEPT ![r].pc = AfterUploadError(req[r]),
                                  ![r].error = UploadError(st),
                                  ![r].status = st]
    /\ UNCHANGED <<now, channels, files, fileParts, batches, batchItems>>

\* a loop that swallows the failure of a chunk and goes on with the next
UploadChunkContinue(r, st) ==
    /\ req[r].pc = "chunk"
    /\ req[r].idx <= Len(req[r].chunkFiles)
    /\ LET chunk == req[r].chunkFiles[req[r].idx] IN
       /\ attempt' = [attempt EXCEPT ![req[r].fileId].posts = @ + 1,
                                     ![req[r].fileId].failedAt =
                                         IF st = OK THEN @ ELSE req[r].idx]
       /\ IF st = OK
          THEN /\ channel' = Append(channel,
                                Attachment(chunk, ReadFile(req[r].tmp, chunk),
                                           req[r].fileId, req[r].idx))
               /\ req' = [req EXCEPT ![r].idx = @ + 1,
                                     ![r].messageIds = Append(@, Len(channel) + 1),
                                     ![r].status = st]
          ELSE /\ channel' = channel
               /\ req' = [req EXCEPT ![r].idx = @ + 1,
                                     ![r].messageIds = Append(@, 0),
                                     ![r].status = st]
    /\ UNCHANGED <<now, channels, files, fileParts, batches, batchItems>>

\* uploadChunk for the chunk at idx, then the pacing delay
UploadChunk(r, st) ==
    /\ req[r].pc = "chunk"
    /\ req[r].idx <= Len(req[r].chunkFiles)
    /\ LET chunk == req[r].chunkFiles[req[r].idx] IN
       /\ attempt' = [attempt EXCEPT ![req[r].fileId].posts = @ + 1,
                                     ![req[r].fileId].failedAt =
                                         IF st = OK THEN @ ELSE req[r].idx]
       /\ IF st = OK
          THEN /\ channel' = Append(channel,
                                Attachment(chunk, ReadFile(req[r].tmp, chunk),
                                           req[r].fileId, req[r].idx))
               /\ req' = [req EXCEPT ![r].idx = @ + 1,
                                     ![r].messageIds = Append(@, Len(channel) + 1),
                                     ![r].status = st]
          ELSE /\ channel' = channel
               /\ req' = [req EXCEPT ![r].pc = AfterUploadError(req[r]),
                                     ![r].error = UploadError(st),
                                     ![r].status = st]
    /\ UNCHANGED <<now, channels, files, fileParts, batches, batchItems>>

\* a loop that sends the request of a chunk and goes on to the next chunk
\* without awaiting the answer
UploadChunkStartNoAwait(r) ==
    /\ req[r].pc = "chunk"
    /\ req[r].idx <= Len(req[r].chunkFiles)
    /\ attempt' = [attempt EXCEPT ![req[r].fileId].inFlight = @ \cup {req[r].idx}]
    /\ req' = [req EXCEPT ![r].idx = @ + 1]
    /\ UNCHANGED <<now, channels, channel, files, fileParts, batches, batchItems>>

\* the chunk loop in three steps.  First: uploadChunk reads the chunk at idx
\* and sends the request; the loop awaits its answer
UploadChunkStart(r) ==
    /\ req[r].pc = "chunk"
    /\ req[r].idx <= Len(req[r].chunkFiles)
    /\ attempt' = [attempt EXCEPT ![req[r].fileId].inFlight = @ \cup {req[r].idx}]
    /\ req' = [req EXCEPT ![r].pc = "await_post"]
    /\ UNCHANGED <<now, channels, channel, files, fileParts, batches, batchItems>>

\* second: the answer to the request; a failure is thrown out of uploadFile
UploadChunkAck(r, st) ==
    /\ req[r].pc = "await_post"
    /\ LET chunk == req[r].chunkFiles[req[r].idx] IN
       /\ attempt' = [attempt EXCEPT ![req[r].fileId].posts = @ + 1,
                                     ![req[r].fileId].inFlight = @ \ {req[r].idx},
                                     ![req[r].fileId].failedAt =
                                         IF st = OK THEN @ ELSE req[r].idx]
       /\ IF st = OK
          THEN /\ channel' = Append(channel,
                                Attachment(chunk, ReadFile(req[r].tmp, chunk),
                                           req[r].fileId, req[r].idx))
               /\ req' = [req EXCEPT ![r].pc = "delay",
                                     ![r].messageIds = Append(@, Len(channel) + 1),
                                     ![r].status = st]
          ELSE /\ channel' = channel
               /\ req' = [req EXCEPT ![r].pc = AfterUploadError(req[r]),
                                     ![r].error = UploadError(st),
                                     ![r].status = st]
    /\ UNCHANGED <<now, channels, files, fileParts, batches, batchItems>>

\* third: the pacing delay of one second has elapsed; on to the next chunk
UploadChunkDelay(r) ==
    /\ req[r].pc = "delay"
    /\ attempt' = [attempt EXCEPT ![req[r].fileId].delays = @ + 1]
    /\ req' = [req EXCEPT ![r].pc = "chunk", ![r].idx = @ + 1]
    /\ UNCHANGED <<now, channels, channel, files, fileParts, batches, batchItems>>

\* a return of the id of the last message instead of the first
UploadFileReturnLast(r) ==
    /\ req[r].pc = "chunk"
    /\ req[r].idx > Len(req[r].chunkFiles)
    /\ attempt' = [attempt EXCEPT ![req[r].fileId].returned = TRUE]
    /\ req' = [req EXCEPT ![r].pc = AfterUpload(req[r]),
                          ![r].tmp = {}, ![r].dir = <<>>,
                          ![r].messageIds =
                             <<req[r].messageIds[Len(req[r].messageIds)]>>]
    /\ UNCHANGED <<now, channels, channel, files, fileParts, batches, batchItems>>

\* after the last chunk: the temporary files are removed and the first
\* message id is returned
UploadFileReturn(r) ==
    /\ req[r].pc = "chunk"
    /\ req[r].idx > Len(req[r].chunkFiles)
    /\ attempt' = [attempt EXCEPT ![req[r].fileId].returned = TRUE]
    /\ req' = [req EXCEPT ![r].pc = AfterUpload(req[r]),
                          ![r].tmp = {}, ![r].dir = <<>>,
                          ![r].messageIds = <<req[r].messageIds[1]>>]
    /\ UNCHANGED <<now, channels, channel, files, fileParts, batches, batchItems>>

\* POST /api/upload after uploadFile returned: the row is marked complete
\* and the response is sent
UploadComplete(r) ==
    /\ req[r].pc = "complete"
    /\ files' = updateFileUploadComplete(req[r].fileId, req[r].messageIds[1])
    /\ req' = [req EXCEPT ![r].pc = "done"]
    /\ UNCHANGED <<now, channels, channel, fileParts, batches, batchItems, attempt>>

(***************************************************************************)
(* POST /api/download and DiscordService.downloadFile                      *)
(***************************************************************************)
\* the handler up to the first remote call of downloadFile: the last_used of
\* the channel row is updated when there is such a row, and a chunked
\* download creates its temporary directory
DownloadRequest(r, name, large) ==
    /\ req[r].op = "idle"
    /\ channels' = IF getChannelByDiscordId(ChannelId) # 0
                   THEN updateChannelLastUsed(getChannelByDiscordId(ChannelId))
                   ELSE channels
    /\ req' = [req EXCEPT ![r] =
                 [Idle EXCEPT !.op = "download", !.name = name, !.large = large,
                              !.dir = IF large THEN createTempDir(now) ELSE <<>>,
                              !.pc = IF large THEN "find" ELSE "list"]]
    /\ UNCHANGED <<now, channel, files, fileParts, batches, batchItems, attempt>>

Fail(rq, err, st) ==
    [rq EXCEPT !.pc = "done", !.error = err, !.status = st]

\* the request record once one more listing call / one more fetch of the
\* attachment at url has been made (lists and fetchLog keep the history of
\* the remote calls of the download)
Listed(rq) == [rq EXCEPT !.lists = @ + 1]
Fetched(rq, url) == [rq EXCEPT !.fetchLog = Append(@, url)]

\* isLarge = false: the listing and the search for the exact name
ListForFile(r, st) ==
    /\ req[r].pc = "list"
    /\ req' = [req EXCEPT ![r] =
                 IF st # OK THEN Fail(Listed(req[r]), DownloadError(st), st)
                 ELSE IF FindFileUrl(ListMessages(channel), req[r].name) = 0
                 THEN Fail(Listed(req[r]),
                           [msg |-> "File not found in the channel",
                            detail |-> ""], st)
                 ELSE [Listed(req[r]) EXCEPT
                         !.pc = "fetch", !.status = st,
                         !.fileUrl = FindFileUrl(ListMessages(channel), req[r].name)]]
    /\ UNCHANGED <<now, channels, channel, files, fileParts, batches, batchItems, attempt>>

\* isLarge = false: the fetch of the attachment's url
FetchFile(r, st) ==
    /\ req[r].pc = "fetch"
    /\ req' = [req EXCEPT ![r] =
                 IF st # OK
                 THEN Fail(Fetched(req[r], req[r].fileUrl), DownloadError(st), st)
                 ELSE [Fetched(req[r], req[r].fileUrl) EXCEPT
                         !.pc = "done", !.status = st,
                         !.result = channel[req[r].fileUrl].data]]
    /\ UNCHANGED <<now, channels, channel, files, fileParts, batches, batchItems, attempt>>

\* findFileParts without its test for an empty result
FindFilePartsNoEmptyTest(r, st) ==
    /\ req[r].pc = "find"
    /\ req' = [req EXCEPT ![r] =
                 IF st # OK THEN Fail(Listed(req[r]), DownloadError(st), st)
                 ELSE [Listed(req[r]) EXCEPT
                         !.pc = "part", !.idx = 1, !.status = st,
                         !.fileParts =
                            findFileParts(ListMessages(channel), req[r].name)]]
    /\ UNCHANGED <<now, channels, channel, files, fileParts, batches, batchItems, attempt>>

\* isLarge = true: findFileParts (the listing, the filter and the sort)
FindFileParts(r, st) ==
    /\ req[r].pc = "find"
    /\ req' = [req EXCEPT ![r] =
                 IF st # OK THEN Fail(Listed(req[r]), DownloadError(st), st)
                 ELSE IF findFileParts(ListMessages(channel), req[r].name) = <<>>
                 THEN Fail(Listed(req[r]), [msg |-> "No file parts found",
                                            detail |-> ""], st)
                 ELSE [Listed(req[r]) EXCEPT
                         !.pc = "part", !.idx = 1, !.status = st,
                         !.fileParts =
                            findFileParts(ListMessages(channel), req[r].name)]]
    /\ UNCHANGED <<now, channels, channel, files, fileParts, batches, batchItems, attempt>>

\* a fetch that is tried again when it fails
FetchPartRetry(r, st) ==
    /\ req[r].pc = "part"
    /\ req[r].idx <= Len(req[r].fileParts)
    /\ LET part == req[r].fileParts[req[r].idx] IN
       req' = [req EXCEPT ![r] =
                 IF st # OK
                 THEN [Fetched(req[r], part.url) EXCEPT !.status = st]
                 ELSE [Fetched(req[r], part.url) EXCEPT
                         !.idx = @ + 1, !.status = st,
                         !.tmp = WriteFile(@, part.filename, channel[part.url].data),
                         !.downloadedParts = Append(@, [filename |-> part.filename])]]
    /\ UNCHANGED <<now, channels, channel, files, fileParts, batches, batchItems, attempt>>

\* isLarge = true: the fetch of the part at idx, saved under its filename
FetchPart(r, st) ==
    /\ req[r].pc = "part"
    /\ req[r].idx <= Len(req[r].fileParts)
    /\ LET part == req[r].fileParts[req[r].idx] IN
       req' = [req EXCEPT ![r] =
                 IF st # OK
                 THEN Fail(Fetched(req[r], part.url), DownloadError(st), st)
                 ELSE [Fetched(req[r], part.url) EXCEPT
                         !.idx = @ + 1, !.status = st,
                         !.tmp = WriteFile(@, part.filename, channel[part.url].data),
                         !.downloadedParts = Append(@, [filename |-> part.filename])]]
    /\ UNCHANGED <<now, channels, channel, files, fileParts, batches, batchItems, attempt>>

\* isLarge = true: mergeFiles, the read of the merged file and the clean up
MergeParts(r) ==
    /\ req[r].pc = "part"
    /\ req[r].idx > Len(req[r].fileParts)
    /\ LET m == mergeFiles(req[r].downloadedParts, req[r].tmp) IN
       req' = [req EXCEPT ![r] =
                 IF ~m.ok
                 THEN [Fail(req[r], [msg |-> "ENOENT", detail |-> ""], req[r].status)
                         EXCEPT !.tmp = m.tmp]
                 ELSE [req[r] EXCEPT !.pc = "done", !.result = m.data,
                                     !.tmp = m.tmp, !.dir = <<>>]]
    /\ UNCHANGED <<now, channels, channel, files, fileParts, batches, batchItems, attempt>>

(***************************************************************************)
(* BatchService                                                            *)
(***************************************************************************)
\* storage.createBatchOperation, as createBatchUpload / createBatchDownload
\* call it
createBatchOperation(type, total) ==
    Append(batches, [operation_type |-> type, status |-> "pending",
                     total_files |-> total, completed_files |-> 0,
                     completed_at |-> FALSE])

\* storage.createBatchOperationItem
createBatchOperationItem(batchId, fileId) ==
    Append(batchItems, [batch_id |-> batchId, file_id |-> fileId,
                        status |-> "pending"])

\* the size test of processBatchUpload
BatchIsLarge(size) == size > BATCH_LARGE_THRESHOLD

\* the message notifyClient is handed (delivered when the user's socket is
\* registered and open): its type, the completed count it carries (0 when
\* it carries none) and the file it names ("" when it names none)
Notification(type, completed, current) ==
    [type |-> type, completed |-> completed, current |-> current]

\* completedFiles === files.length ? 'completed' : 'completed_with_errors'
FinalStatus(completedFiles, total) ==
    IF completedFiles = total THEN "completed" ELSE "completed_with_errors"

\* createBatchUpload: the batch row is created and the runner is started
BatchUploadRequest(r, queue) ==
    /\ req[r].op = "idle"
    /\ Len(batches) < MaxBatches
    /\ Len(files) + Len(queue) <= MaxBatchFiles
    /\ batches' = createBatchOperation("upload", Len(queue))
    /\ req' = [req EXCEPT ![r] =
                 [Idle EXCEPT !.op = "batch_upload", !.pc = "batch_begin",
                              !.queue = queue, !.total = Len(queue),
                              !.list = queue,
                              !.batchId = Len(batches) + 1]]
    /\ UNCHANGED <<now, channels, channel, files, fileParts, batchItems, attempt>>

\* processBatchUpload up to its loop: the batch is in progress and the
\* channel row is created when there is none
BatchUploadBegin(r) ==
    /\ req[r].pc = "batch_begin"
    /\ req[r].op = "batch_upload"
    /\ batches' = [batches EXCEPT ![req[r].batchId].status = "in_progress"]
    /\ channels' = IF getChannelByDiscordId(ChannelId) = 0
                   THEN createChannel(ChannelId)
                   ELSE channels
    /\ req' = [req EXCEPT ![r].pc = "batch_next", ![r].completedFiles = 0]
    /\ UNCHANGED <<now, channel, files, fileParts, batchItems, attempt>>

\* processBatchUpload up to its loop in two steps.  First: the batch is in
\* progress and the channel row is looked up
BatchUploadLookup(r) ==
    /\ req[r].pc = "batch_begin"
    /\ req[r].op = "batch_upload"
    /\ batches' = [batches EXCEPT ![req[r].batchId].status = "in_progress"]
    /\ req' = [req EXCEPT ![r].pc = "batch_channel",
                          ![r].channelRow = getChannelByDiscordId(ChannelId)]
    /\ UNCHANGED <<now, channels, channel, files, fileParts, batchItems, attempt>>

\* second: the row is created when the lookup found none.  An insert the
\* unique constraint rejects throws out of processBatchUpload, which nobody
\* awaits: the runner ends there
BatchUploadResolve(r) ==
    /\ req[r].pc = "batch_channel"
    /\ IF req[r].channelRow = 0 /\ UniqueViolation(ChannelId)
       THEN /\ req' = [req EXCEPT ![r].pc = "done", ![r].error = DuplicateKey]
            /\ UNCHANGED channels
       ELSE /\ channels' = IF req[r].channelRow = 0
                           THEN createChannel(ChannelId)
                           ELSE channels
            /\ req' = [req EXCEPT ![r].pc = "batch_next",
                                  ![r].completedFiles = 0]
    /\ UNCHANGED <<now, channel, files, fileParts, batches, batchItems, attempt>>

\* a loop that calls uploadFile without awaiting it and goes on with the
\* next file at once
BatchUploadNextNoAwait(r) ==
    /\ req[r].pc = "batch_next"
    /\ req[r].op = "batch_upload"
    /\ req[r].queue # <<>>
    /\ LET file == Head(req[r].queue) IN
       /\ files' = createFile(file.name, file.size,
                              IF BatchIsLarge(file.size) THEN "large_chunked"
                              ELSE "normal")
       /\ attempt' = Append(attempt, NewAttempt)
       /\ batchItems' = createBatchOperationItem(req[r].batchId, Len(files) + 1)
       /\ req' = [req EXCEPT
                    ![r].queue = Tail(@),
                    ![r].notes = Append(@, Notification("batch_progress",
                                                        req[r].completedFiles,
                                                        file.name))]
    /\ UNCHANGED <<now, channels, channel, fileParts, batches>>

\* one turn of the loop up to the call of uploadFile: the progress
\* notification is sent and the file row and the batch item are created
BatchUploadNext(r) ==
    /\ req[r].pc = "batch_next"
    /\ req[r].op = "batch_upload"
    /\ req[r].queue # <<>>
    /\ LET file == Head(req[r].queue) IN
       /\ files' = createFile(file.name, file.size,
                              IF BatchIsLarge(file.size) THEN "large_chunked"
                              ELSE "normal")
       /\ attempt' = Append(attempt, NewAttempt)
       /\ batchItems' = createBatchOperationItem(req[r].batchId, Len(files) + 1)
       /\ req' = [req EXCEPT ![r] =
                    [Idle EXCEPT !.op = "batch_upload", !.pc = "uploadFile",
                                 !.name = file.name, !.size = file.size,
                                 !.fileId = Len(files) + 1,
                                 !.batchId = req[r].batchId,
                                 !.queue = req[r].queue,
                                 !.total = req[r].total,
                                 !.completedFiles = req[r].completedFiles,
                                 !.itemId = Len(batchItems) + 1,
                                 !.list = req[r].list,
                                 !.notes =
                                    Append(req[r].notes,
                                           Notification("batch_progress",
                                                        req[r].completedFiles,
                                                        file.name))]]
    /\ UNCHANGED <<now, channels, channel, fileParts, batches>>

\* uploadFile returned: the file row, the item and the batch are updated
BatchUploadComplete(r) ==
    /\ req[r].pc = "batch_complete"
    /\ files' = updateFileUploadComplete(req[r].fileId, req[r].messageIds[1])
    /\ batchItems' = [batchItems EXCEPT ![req[r].itemId].status = "completed"]
    /\ batches' = [batches EXCEPT ![req[r].batchId].completed_files =
                                      req[r].completedFiles + 1]
    /\ req' = [req EXCEPT ![r].pc = "batch_next",
                          ![r].completedFiles = @ + 1,
                          ![r].queue = Tail(@)]
    /\ UNCHANGED <<now, channels, channel, fileParts, attempt>>

\* a catch block that gives the rest of the batch up
BatchUploadErrorAbort(r) ==
    /\ req[r].pc = "batch_error"
    /\ req' = [req EXCEPT ![r].pc = "batch_next", ![r].queue = <<>>]
    /\ UNCHANGED <<now, channels, channel, files, fileParts, batches, batchItems, attempt>>

\* uploadFile threw: the catch block of the loop notifies the client
BatchUploadError(r) ==
    /\ req[r].pc = "batch_error"
    /\ req' = [req EXCEPT ![r].pc = "batch_next", ![r].queue = Tail(@),
                          ![r].notes = Append(@, Notification("batch_error", 0,
                                                              req[r].name))]
    /\ UNCHANGED <<now, channels, channel, files, fileParts, batches, batchItems, attempt>>

\* after the loop: the final status of the batch and the completion
\* notification
BatchUploadFinish(r) ==
    /\ req[r].pc = "batch_next"
    /\ req[r].op = "batch_upload"
    /\ req[r].queue = <<>>
    /\ batches' = [batches EXCEPT
                     ![req[r].batchId].status =
                        FinalStatus(req[r].completedFiles, req[r].total),
                     ![req[r].batchId].completed_files = req[r].completedFiles,
                     ![req[r].batchId].completed_at = TRUE]
    /\ req' = [req EXCEPT ![r].pc = "done",
                          ![r].notes = Append(@, Notification("batch_complete",
                                                              req[r].completedFiles,
                                                              ""))]
    /\ UNCHANGED <<now, channels, channel, files, fileParts, batchItems, attempt>>

\* createBatchDownload
BatchDownloadRequest(r, fileIds) ==
    /\ req[r].op = "idle"
    /\ Len(batches) < MaxBatches
    /\ batches' = createBatchOperation("download", Len(fileIds))
    /\ req' = [req EXCEPT ![r] =
                 [Idle EXCEPT !.op = "batch_download", !.pc = "batch_begin",
                              !.queue = fileIds, !.total = Len(fileIds),
                              !.batchId = Len(batches) + 1]]
    /\ UNCHANGED <<now, channels, channel, files, fileParts, batchItems, attempt>>

\* processBatchDownload up to its loop
BatchDownloadBegin(r) ==
    /\ req[r].pc = "batch_begin"
    /\ req[r].op = "batch_download"
    /\ batches' = [batches EXCEPT ![req[r].batchId].status = "in_progress"]
    /\ req' = [req EXCEPT ![r].pc = "batch_next", ![r].completedFiles = 0]
    /\ UNCHANGED <<now, channels, channel, files, fileParts, batchItems, attempt>>

\* storage.getFile
FileExists(id) == id \in 1..Len(files)

\* one turn of the loop of processBatchDownload: a file id that is not in
\* the table throws before the item is created and the catch block sends
\* the error notification; otherwise the progress notification is sent and
\* the item created and completed
BatchDownloadNext(r) ==
    /\ req[r].pc = "batch_next"
    /\ req[r].op = "batch_download"
    /\ req[r].queue # <<>>
    /\ IF FileExists(Head(req[r].queue))
       THEN /\ batchItems' =
                 [createBatchOperationItem(req[r].batchId, Head(req[r].queue))
                    EXCEPT ![Len(batchItems) + 1].status = "completed"]
            /\ batches' = [batches EXCEPT ![req[r].batchId].completed_files =
                                              req[r].completedFiles + 1]
            /\ req' = [req EXCEPT
                         ![r].completedFiles = @ + 1,
                         ![r].queue = Tail(@),
                         ![r].notes =
                            Append(@, Notification("batch_progress",
                                       req[r].completedFiles,
                                       files[Head(req[r].queue)].original_filename))]
       ELSE /\ req' = [req EXCEPT
                         ![r].queue = Tail(@),
                         ![r].notes = Append(@, Notification("batch_error", 0,
                                                             Head(req[r].queue)))]
            /\ UNCHANGED <<now, channels, batches, batchItems>>
    /\ UNCHANGED <<now, channels, channel, files, fileParts, attempt>>

\* after the loop of processBatchDownload
BatchDownloadFinish(r) ==
    /\ req[r].pc = "batch_next"
    /\ req[r].op = "batch_download"
    /\ req[r].queue = <<>>
    /\ batches' = [batches EXCEPT
                     ![req[r].batchId].status =
                        FinalStatus(req[r].completedFiles, req[r].total),
                     ![req[r].batchId].completed_files = req[r].completedFiles,
                     ![req[r].batchId].completed_at = TRUE]
    /\ req' = [req EXCEPT ![r].pc = "done",
                          ![r].notes = Append(@, Notification("batch_complete",
                                                              req[r].completedFiles,
                                                              ""))]
    /\ UNCHANGED <<now, channels, channel, files, fileParts, batchItems, attempt>>

(***************************************************************************)
(* The end of a request                                                    *)
(***************************************************************************)
\* the response has been sent / the runner has ended: the slot is free again
Finish(r) ==
    /\ req[r].pc = "done"
    /\ req' = [req EXCEPT ![r] = Idle]
    /\ UNCHANGED <<now, channels, channel, files, fileParts, batches, batchItems, attempt>>

\* a millisecond goes by
Tick ==
    /\ now < MaxClock
    /\ now' = now + 1
    /\ UNCHANGED <<channels, channel, files, fileParts, batches, batchItems, req,
                   attempt>>

(***************************************************************************)
(* Specifications                                                          *)
(***************************************************************************)
Statuses == {OK} \cup FailStatuses

\* the upload and download routes, one request after the other
Next ==
    \/ \E name \in Names, size \in Sizes : UploadRequest(Main, name, size)
    \/ UploadFileBegin(Main)
    \/ \E st \in Statuses : PostFile(Main, st)
    \/ \E st \in Statuses : UploadChunk(Main, st)
    \/ UploadFileReturn(Main)
    \/ UploadComplete(Main)
    \/ \E name \in Names, large \in BOOLEAN : DownloadRequest(Main, name, large)
    \/ \E st \in Statuses : ListForFile(Main, st)
    \/ \E st \in Statuses : FetchFile(Main, st)
    \/ \E st \in Statuses : FindFileParts(Main, st)
    \/ \E st \in Statuses : FetchPart(Main, st)
    \/ MergeParts(Main)
    \/ Finish(Main)

Spec == Init /\ [][Next]_vars

BatchStatuses == {OK, 500}

RECURSIVE Queues(_)
\* the lists of at most n files a batch upload may be handed
Queues(n) ==
    IF n = 0 THEN {<<>>}
    ELSE Queues(n - 1)
         \cup {Append(q, [name |-> F, size |-> sz]) :
                 q \in {p \in Queues(n - 1) : Len(p) = n - 1}, sz \in BatchSizes}

RECURSIVE IdLists(_)
\* the lists of at most n file ids a batch download may be handed: ids of
\* rows and one id that is in no row
IdLists(n) ==
    IF n = 0 THEN {<<>>}
    ELSE IdLists(n - 1)
         \cup {Append(q, id) :
                 q \in {p \in IdLists(n - 1) : Len(p) = n - 1},
                 id \in {1, MaxBatchFiles + 1}}

\* the batch runners and the upload route, one request after the other
BatchNext ==
    \/ batches = <<>> /\ \E size \in BatchSizes : UploadRequest(Main, F, size)
    \/ \E q \in Queues(MaxBatchFiles) \ {<<>>} : BatchUploadRequest(Main, q)
    \/ BatchUploadBegin(Main)
    \/ BatchUploadNext(Main)
    \/ UploadFileBegin(Main)
    \/ \E st \in BatchStatuses : PostFile(Main, st)
    \/ \E st \in BatchStatuses : UploadChunk(Main, st)
    \/ UploadFileReturn(Main)
    \/ UploadComplete(Main)
    \/ BatchUploadComplete(Main)
    \/ BatchUploadError(Main)
    \/ BatchUploadFinish(Main)
    \/ \E ids \in IdLists(MaxBatchFiles) \ {<<>>} : BatchDownloadRequest(Main, ids)
    \/ BatchDownloadBegin(Main)
    \/ BatchDownloadNext(Main)
    \/ BatchDownloadFinish(Main)
    \/ Finish(Main)

BatchSpec == Init /\ [][BatchNext]_vars

\* the lengths splitFile is applied to: around every multiple of the chunk
\* size up to MaxSplitChunks chunks, 0 included
SplitSizes ==
    {n \in {k * CHUNK_SIZE + d : k \in 0..MaxSplitChunks, d \in -2..2} : n >= 0}

\* a temporary file of some name and length is about to be split
SplitInit ==
    /\ channel = <<>>
    /\ channels = <<>>
    /\ files = <<>>
    /\ fileParts = <<>>
    /\ batches = <<>>
    /\ batchItems = <<>>
    /\ now = 0
    /\ attempt = <<>>
    /\ \E name \in Names, size \in SplitSizes :
          req = [r \in Slots |->
                   IF r = Main
                   THEN [Idle EXCEPT !.op = "split", !.pc = "split",
                                     !.name = name, !.size = size, !.fileId = 1]
                   ELSE Idle]

\* splitFile(tempFilePath, tempDir): the chunk files are written and their
\* paths returned
SplitFileCall(r) ==
    /\ req[r].pc = "split"
    /\ req' = [req EXCEPT
                 ![r].pc = "done",
                 ![r].tmp = ChunkTmp(req[r]),
                 ![r].chunkFiles =
                    [k \in 1..TotalChunks(req[r].size) |->
                       splitFile(req[r].fileId, req[r].name,
                                 req[r].size)[k].filename]]
    /\ UNCHANGED <<now, channels, channel, files, fileParts, batches, batchItems, attempt>>

SplitNext == SplitFileCall(Main)

SplitSpec == SplitInit /\ [][SplitNext]_vars

\* file sizes of 2, 3 and 10 parts
PacedSizes == {UPLOAD_LARGE_THRESHOLD + 1, 2 * CHUNK_SIZE + 1, 10 * CHUNK_SIZE}

\* the upload route with the chunk loop taken step by step
PacedNext ==
    \/ \E name \in Names, size \in PacedSizes : UploadRequest(Main, name, size)
    \/ UploadFileBegin(Main)
    \/ UploadChunkStart(Main)
    \/ \E st \in BatchStatuses : UploadChunkAck(Main, st)
    \/ UploadChunkDelay(Main)
    \/ UploadFileReturn(Main)
    \/ UploadComplete(Main)
    \/ Finish(Main)

PacedSpec == Init /\ [][PacedNext]_vars

\* two transfers of chunked files at a time, while the clock goes on
TempNext ==
    \/ \E r \in Slots : UploadRequest(r, F, UPLOAD_LARGE_THRESHOLD + 1)
    \/ \E r \in Slots : UploadFileBegin(r)
    \/ \E r \in Slots : UploadChunk(r, OK)
    \/ \E r \in Slots : UploadFileReturn(r)
    \/ \E r \in Slots : UploadComplete(r)
    \/ \E r \in Slots : DownloadRequest(r, F, TRUE)
    \/ \E r \in Slots : FindFileParts(r, OK)
    \/ \E r \in Slots : FetchPart(r, OK)
    \/ \E r \in Slots : MergeParts(r)
    \/ \E r \in Slots : Finish(r)
    \/ Tick

TempSpec == Init /\ [][TempNext]_vars

\* route uploads and batch uploads of small files, two at a time, with the
\* lookup of the channel row and what follows it as separate steps
ChannelNext ==
    \/ \E r \in Slots : UploadLookup(r, F, BATCH_LARGE_THRESHOLD + 1)
    \/ \E r \in Slots : UploadResolve(r)
    \/ \E r \in Slots :
          BatchUploadRequest(r, <<[name |-> F, size |-> BATCH_LARGE_THRESHOLD + 1]>>)
    \/ \E r \in Slots : BatchUploadLookup(r)
    \/ \E r \in Slots : BatchUploadResolve(r)
    \/ \E r \in Slots : BatchUploadNext(r)
    \/ \E r \in Slots : UploadFileBegin(r)
    \/ \E r \in Slots : \E st \in BatchStatuses : PostFile(r, st)
    \/ \E r \in Slots : UploadComplete(r)
    \/ \E r \in Slots : BatchUploadComplete(r)
    \/ \E r \in Slots : BatchUploadError(r)
    \/ \E r \in Slots : BatchUploadFinish(r)
    \/ \E r \in Slots : Finish(r)

ChannelSpec == Init /\ [][ChannelNext]_vars

(***************************************************************************)
(* Properties                                                              *)
(***************************************************************************)
FileIds == 1..Len(files)

\* the messages upload attempt u got acknowledged
MessagesOf(u) == {i \in 1..Len(channel) : channel[i].by = u}
AckedParts(u) == {channel[i].part : i \in MessagesOf(u)}

\* the remote writes the upload of row u needs: the one message (part 0)
\* or every part
RequiredParts(u) ==
    IF IsLargeFile(files[u].size_bytes)
    THEN 1..TotalChunks(files[u].size_bytes)
    ELSE {0}

RECURSIVE AfterLastPart(_)
\* the tokens after the last ".part" of a name
AfterLastPart(s) ==
    IF \E i \in 1..Len(AfterFirstPart(s)) : AfterFirstPart(s)[i] = PART
    THEN AfterLastPart(AfterFirstPart(s))
    ELSE AfterFirstPart(s)

\* the integer that follows the last ".part" of a name
LastPartNumber(name) == ParseInt(AfterLastPart(name))

\* a download of the chunked file of row u ended without a failed call
LargeDownloadOf(rq, u) ==
    /\ rq.op = "download" /\ rq.pc = "done" /\ rq.large
    /\ rq.status = OK
    /\ rq.name = files[u].filename
    /\ IsLargeFile(files[u].size_bytes)

\* every attachment whose name starts with `${filename}.part` is of row u
OnlyPartsOf(u) ==
    \A i \in 1..Len(channel) :
        StartsWith(channel[i].filename, files[u].filename \o <<PART>>)
            => channel[i].by = u

\* C1: a chunked file that was uploaded to a channel holding no other
\* attachment named `${f}.part...` is downloaded (isLarge = true) as
\* exactly the bytes that were uploaded.
C1_RoundTrip ==
    \A u \in FileIds :
        (LargeDownloadOf(req[Main], u) /\ attempt[u].returned /\ OnlyPartsOf(u))
            => /\ req[Main].error = NoError
               /\ req[Main].result = Buffer(u, files[u].size_bytes)

\* C2: once the post of part k of a chunked upload has failed, that upload
\* has posted no part above k and its file row is not complete, in this and
\* every later state.
C2_Atomicity ==
    \A u \in FileIds :
        (IsLargeFile(files[u].size_bytes) /\ attempt[u].failedAt > 0)
            => /\ \A k \in AckedParts(u) : k <= attempt[u].failedAt
               /\ ~files[u].upload_complete

C2_Witness ==
    \E u \in FileIds :
        /\ TotalChunks(files[u].size_bytes) = 3
        /\ attempt[u].failedAt = 2
        /\ AckedParts(u) = {1}
        /\ req[Main].op = "download" /\ req[Main].pc = "done"

\* the upload attempts some of whose parts a scan has picked up
ScannedAttempts(rq) ==
    {channel[rq.fileParts[i].url].by : i \in 1..Len(rq.fileParts)}
ScannedParts(rq, u) ==
    {channel[rq.fileParts[i].url].part :
        i \in {j \in 1..Len(rq.fileParts) : channel[rq.fileParts[j].url].by = u}}

\* C3: a chunked download never returns bytes when some part 1..n of a file
\* it picked parts of is absent from the listing; it fails instead.
C3_NoIncompleteDownload ==
    LET rq == req[Main] IN
    (rq.op = "download" /\ rq.pc = "done" /\ rq.large /\ rq.error = NoError)
        => \A u \in ScannedAttempts(rq) :
              IsLargeFile(files[u].size_bytes)
                  => ScannedParts(rq, u) = 1..TotalChunks(files[u].size_bytes)

\* C4: the scan returns the parts in ascending order of the integer that
\* follows the last ".part" of their names, and they are merged in that
\* order.
C4_NumericOrder ==
    LET rq == req[Main] IN
    (rq.op = "download" /\ rq.large /\ rq.pc \in {"part", "done"})
        => \A i, j \in 1..Len(rq.fileParts) :
              i < j => LastPartNumber(rq.fileParts[i].filename)
                         <= LastPartNumber(rq.fileParts[j].filename)

\* C5: a file row is large_chunked exactly when its size is above the
\* threshold uploadFile chunks at.
C5_KindMatchesChunking ==
    \A u \in FileIds :
        (files[u].type = "large_chunked") <=> IsLargeFile(files[u].size_bytes)

\* C6: a complete file row is single with a message id, or chunked with a
\* complete Part row for every part 1..n.
C6_CompleteHasParts ==
    \A u \in FileIds :
        files[u].upload_complete
            => \/ /\ files[u].type = "normal"
                  /\ files[u].discord_message_id # 0
               \/ /\ files[u].type = "large_chunked"
                  /\ \A k \in 1..TotalChunks(files[u].size_bytes) :
                        \E p \in 1..Len(fileParts) :
                            /\ fileParts[p].file_id = u
                            /\ fileParts[p].part_number = k
                            /\ fileParts[p].upload_complete

\* C7: a file row is not complete before the first remote call of its
\* upload, and is complete only when every remote write the upload needs
\* has been acknowledged.
C7_Lifecycle ==
    \A u \in FileIds :
        /\ attempt[u].posts = 0 => ~files[u].upload_complete
        /\ files[u].upload_complete
              => /\ attempt[u].returned
                 /\ RequiredParts(u) \subseteq AckedParts(u)

C7_Witness ==
    \E u, v \in FileIds :
        /\ files[u].upload_complete
        /\ AckedParts(u) = {1, 2}
        /\ ~files[v].upload_complete
        /\ AckedParts(v) = {1}
        /\ batchItems # <<>>

\* the items of batch b and the files they stand for
ItemsOf(b) == {i \in 1..Len(batchItems) : batchItems[i].batch_id = b}
Finished(b) == batches[b].completed_at
Succeeded(b) == {i \in ItemsOf(b) : attempt[batchItems[i].file_id].returned}

\* C8: when a batch upload has finished, every file of it was attempted,
\* every file that succeeded has a complete row, completed_files is the
\* number of files that succeeded, and the status is completed_with_errors
\* exactly when that number is below the number of files.
C8_BatchIsolation ==
    \A b \in 1..Len(batches) :
        (Finished(b) /\ batches[b].operation_type = "upload")
            => /\ Cardinality(ItemsOf(b)) = batches[b].total_files
               /\ \A i \in ItemsOf(b) : attempt[batchItems[i].file_id].posts >= 1
               /\ \A i \in Succeeded(b) : files[batchItems[i].file_id].upload_complete
               /\ batches[b].completed_files = Cardinality(Succeeded(b))
               /\ batches[b].status =
                     IF Cardinality(Succeeded(b)) < batches[b].total_files
                     THEN "completed_with_errors" ELSE "completed"

C8_Witness ==
    \E b \in 1..Len(batches) :
        /\ Finished(b) /\ batches[b].operation_type = "upload"
        /\ batches[b].total_files = 3
        /\ batches[b].completed_files = 2
        /\ batches[b].status = "completed_with_errors"
        /\ \E i \in ItemsOf(b) :
              /\ {i - 1, i + 1} \subseteq Succeeded(b)
              /\ i \notin Succeeded(b)
              /\ ~files[batchItems[i].file_id].upload_complete

\* C9: a finished batch has one item per file; it is completed exactly when
\* every item is completed, and otherwise completed_with_errors with every
\* item completed or failed and at least one failed.
C9_StatusFromItems ==
    \A b \in 1..Len(batches) :
        Finished(b)
            => /\ Cardinality(ItemsOf(b)) = batches[b].total_files
               /\ (batches[b].status = "completed")
                     <=> (\A i \in ItemsOf(b) : batchItems[i].status = "completed")
               /\ batches[b].status # "completed"
                     => /\ batches[b].status = "completed_with_errors"
                        /\ \A i \in ItemsOf(b) :
                              batchItems[i].status \in {"completed", "failed"}
                        /\ \E i \in ItemsOf(b) : batchItems[i].status = "failed"

\* the kind a caller reads off a thrown error
ErrorKind(err) ==
    IF err.msg = "Invalid Discord token" THEN "AuthError"
    ELSE IF err.msg \in {"Bot does not have permission to upload files to this channel",
                         "Bot does not have permission to access this channel"}
    THEN "PermissionError"
    ELSE IF err.msg = "Channel not found" THEN "NotFoundError"
    ELSE IF err.msg = "Discord API error" THEN "RemoteProtocolError"
    ELSE "Error"

\* the five kinds of the claim
FiveKinds(st) ==
    IF st = 401 THEN "AuthError"
    ELSE IF st = 403 THEN "PermissionError"
    ELSE IF st = 404 THEN "NotFoundError"
    ELSE IF st = 429 THEN "RateLimitError"
    ELSE "RemoteProtocolError"

\* the same without a kind for throttling
FourKinds(st) ==
    IF st = 401 THEN "AuthError"
    ELSE IF st = 403 THEN "PermissionError"
    ELSE IF st = 404 THEN "NotFoundError"
    ELSE "RemoteProtocolError"

\* a request of the routes ended on a failed remote call
FailedCall(rq) ==
    rq.op \in {"upload", "download"} /\ rq.pc = "done" /\ rq.status \in FailStatuses

C11_ThresholdBoundary ==
    \A u \in FileIds :
        /\ files[u].size_bytes <= UPLOAD_LARGE_THRESHOLD
              => /\ AckedParts(u) \subseteq {0}
                 /\ Cardinality(MessagesOf(u)) <= 1
                 /\ \A i \in MessagesOf(u) :
                       /\ channel[i].filename = files[u].filename
                       /\ channel[i].data = Buffer(u, files[u].size_bytes)
                 /\ attempt[u].returned => AckedParts(u) = {0}
        /\ files[u].size_bytes > UPLOAD_LARGE_THRESHOLD
              => /\ 0 \notin AckedParts(u)
                 /\ \A i \in MessagesOf(u) :
                       channel[i].filename =
                           PartName(files[u].filename, channel[i].part)
                 /\ attempt[u].returned
                       => AckedParts(u) = 1..TotalChunks(files[u].size_bytes)

C11_Witness ==
    \E u, v \in FileIds :
        /\ files[u].size_bytes = UPLOAD_LARGE_THRESHOLD
        /\ attempt[u].returned /\ AckedParts(u) = {0}
        /\ files[v].size_bytes = UPLOAD_LARGE_THRESHOLD + 1
        /\ attempt[v].returned /\ AckedParts(v) = {1, 2}

\* the bytes of the k-th chunk file splitFile returned
ChunkData(rq, k) == ReadFile(rq.tmp, rq.chunkFiles[k])

RECURSIVE SumLengths(_, _)
SumLengths(rq, k) ==
    IF k = 0 THEN 0 ELSE ByteLength(ChunkData(rq, k)) + SumLengths(rq, k - 1)

\* C12: splitFile on n bytes yields ceil(n / c) chunks; chunk k covers the
\* bytes from (k - 1) * c on, without gap or overlap; every chunk is c long
\* but the last, which is n mod c long (c when n is a multiple of c); the
\* lengths sum to n; no chunk is empty; n = 0 yields no chunk.
C12_SplitShape ==
    LET rq == req[Main]
        n == rq.size
        c == CHUNK_SIZE
        m == Len(rq.chunkFiles)
    IN (rq.op = "split" /\ rq.pc = "done")
        => /\ m = (IF n % c = 0 THEN n \div c ELSE (n \div c) + 1)
           /\ n = 0 => m = 0
           /\ \A k \in 1..m :
                 /\ rq.chunkFiles[k] = PartName(rq.name, k)
                 /\ Len(ChunkData(rq, k)) = 1
                 /\ ChunkData(rq, k)[1].lo = (k - 1) * c
                 /\ ChunkData(rq, k)[1].hi - ChunkData(rq, k)[1].lo =
                       (IF k < m THEN c ELSE IF n % c = 0 THEN c ELSE n % c)
                 /\ k < m => ChunkData(rq, k)[1].hi = ChunkData(rq, k + 1)[1].lo
                 /\ ByteLength(ChunkData(rq, k)) > 0
           /\ SumLengths(rq, m) = n

C12_Witness ==
    /\ req[Main].op = "split" /\ req[Main].pc = "done"
    /\ req[Main].size = 2 * CHUNK_SIZE
    /\ Len(req[Main].chunkFiles) = 2
    /\ ByteLength(ChunkData(req[Main], 2)) = CHUNK_SIZE

\* the Part rows of file row u
PartRowsOf(u) == {p \in 1..Len(fileParts) : fileParts[p].file_id = u}

RECURSIVE SumPartSizes(_)
SumPartSizes(ps) ==
    IF ps = {} THEN 0
    ELSE LET p == CHOOSE q \in ps : TRUE
         IN fileParts[p].size_bytes + SumPartSizes(ps \ {p})

\* C13: the Part rows of a chunked file whose upload completed are numbered
\* exactly 1..n without duplicate, every one but possibly the last is
\* CHUNK_SIZE long, and their sizes sum to the size of the file row.
C13_PartRows ==
    \A u \in FileIds :
        (files[u].upload_complete /\ IsLargeFile(files[u].size_bytes))
            => LET n == TotalChunks(files[u].size_bytes) IN
               /\ {fileParts[p].part_number : p \in PartRowsOf(u)} = 1..n
               /\ Cardinality(PartRowsOf(u)) = n
               /\ \A p \in PartRowsOf(u) :
                     fileParts[p].part_number < n
                         => fileParts[p].size_bytes = CHUNK_SIZE
               /\ SumPartSizes(PartRowsOf(u)) = files[u].size_bytes

UploadOver(u) ==
    \A r \in Slots :
        ~(req[r].op \in {"upload", "batch_upload"} /\ req[r].fileId = u
          /\ req[r].pc # "done")

\* no upload of the filename of row u came after that of row u
LatestUpload(u) ==
    \A v \in FileIds : v > u => files[v].filename # files[u].filename

\* C15: a file of at most the chunking threshold is posted exactly once,
\* whole and under its own name; its row is single and, the post
\* acknowledged, ends complete with the id of that message; a download of
\* the filename with isLarge = false, with no later upload of the same
\* filename, returns the uploaded bytes.
C15_SmallFile ==
    \A u \in FileIds :
        files[u].size_bytes <= UPLOAD_LARGE_THRESHOLD
            => /\ files[u].type = "normal"
               /\ attempt[u].posts <= 1
               /\ UploadOver(u) => attempt[u].posts = 1
               /\ \A i \in MessagesOf(u) :
                     /\ channel[i].filename = files[u].filename
                     /\ channel[i].data = Buffer(u, files[u].size_bytes)
               /\ (UploadOver(u) /\ attempt[u].returned)
                     => /\ files[u].upload_complete
                        /\ MessagesOf(u) = {files[u].discord_message_id}
               /\ LET rq == req[Main] IN
                  (/\ rq.op = "download" /\ ~rq.large /\ rq.pc = "done"
                   /\ rq.status = OK
                   /\ rq.name = files[u].filename
                   /\ attempt[u].returned /\ LatestUpload(u))
                      => /\ rq.error = NoError
                         /\ rq.result = Buffer(u, files[u].size_bytes)

\* C16: a chunked download whose scan finds no attachment named
\* `${filename}.part...` fails with "No file parts found"; it fetches no
\* bytes and returns no buffer.
C16_ZeroParts ==
    LET rq == req[Main] IN
    (/\ rq.op = "download" /\ rq.large /\ rq.pc = "done" /\ rq.status = OK
     /\ SelectParts(ListMessages(channel), rq.name \o <<PART>>) = <<>>)
        => /\ rq.error.msg = "No file parts found"
           /\ rq.downloadedParts = <<>>
           /\ rq.tmp = {}
           /\ rq.result = <<>>

C16_Witness ==
    LET rq == req[Main] IN
    /\ rq.op = "download" /\ rq.large /\ rq.pc = "done" /\ rq.status = OK
    /\ rq.error.msg = "No file parts found"
    /\ \E i \in 1..Len(channel) : channel[i].filename = rq.name

\* the decimal numeral of k, 1 <= k <= 99, without padding
Numeral(k) ==
    IF k < 10 THEN <<Digits[k + 1]>>
    ELSE <<Digits[(k \div 10) + 1], Digits[(k % 10) + 1]>>

\* C17: the parts of a chunked upload are posted one at a time in ascending
\* part number under the names `${filename}.part${N}`: while the post of
\* part k awaits its answer no other post of the file does, parts 1..k-1
\* are acknowledged and k-1 pacing delays have elapsed.
C17_OneAtATime ==
    \A u \in FileIds :
        IsLargeFile(files[u].size_bytes)
            => /\ Cardinality(attempt[u].inFlight) <= 1
               /\ \A k \in attempt[u].inFlight :
                     /\ AckedParts(u) = 1..(k - 1)
                     /\ attempt[u].delays = k - 1
               /\ \A i, j \in MessagesOf(u) :
                     i < j => channel[i].part < channel[j].part
               /\ \A i \in MessagesOf(u) :
                     channel[i].filename =
                         files[u].filename \o <<PART>> \o Numeral(channel[i].part)

C17_Witness ==
    \E u \in FileIds :
        /\ attempt[u].inFlight = {10}
        /\ AckedParts(u) = 1..9
        /\ \E i \in MessagesOf(u) : channel[i].part = 9

\* uploadFile or downloadFile of the request has returned or thrown
TransferOver(rq) ==
    \/ rq.op = "upload" /\ rq.pc \in {"complete", "done"}
    \/ rq.op = "batch_upload" /\ rq.pc \in {"batch_complete", "batch_error"}
    \/ rq.op = "download" /\ rq.pc = "done"

\* C18: once uploadFile or downloadFile has returned or thrown, no temporary
\* file of that transfer is left, whether it succeeded or failed.
C18_TempCleanup ==
    \A r \in Slots : TransferOver(req[r]) => req[r].tmp = {}

\* C19: during a chunked upload a Part row exists for the chunk whose post
\* is under way, and the Part rows marked complete are exactly the parts the
\* channel acknowledged.
C19_PartLedger ==
    \A u \in FileIds :
        IsLargeFile(files[u].size_bytes)
            => /\ \A k \in attempt[u].inFlight :
                     \E p \in PartRowsOf(u) : fileParts[p].part_number = k
               /\ {fileParts[p].part_number :
                      p \in {q \in PartRowsOf(u) : fileParts[q].upload_complete}}
                     = AckedParts(u)

\* the items of batch b in the order of their creation
BatchItemSeq(b) ==
    LET OfBatch(it) == it.batch_id = b IN SelectSeq(batchItems, OfBatch)

\* what happened to the upload of file row u
Outcome(u) ==
    IF attempt[u].returned THEN "succeeded"
    ELSE IF attempt[u].failedAt > 0 THEN "failed"
    ELSE "none"

\* the number of the first k files of the batch that succeeded
SucceededAmong(its, k) ==
    Cardinality({i \in 1..k : Outcome(its[i].file_id) = "succeeded"})

RECURSIVE NotesFor(_, _, _)
\* the notifications due for the first k files of the batch: before each
\* file a batch_progress carrying the number of files that succeeded so far,
\* after each failed file (once its catch block ran) a batch_error
NotesFor(rq, its, k) ==
    IF k = 0 THEN <<>>
    ELSE NotesFor(rq, its, k - 1)
           \o <<Notification("batch_progress", SucceededAmong(its, k - 1),
                              files[its[k].file_id].filename)>>
           \o (IF /\ Outcome(its[k].file_id) = "failed"
                   /\ (k < Len(its) \/ rq.pc # "batch_error")
                THEN <<Notification("batch_error", 0,
                                    files[its[k].file_id].filename)>>
                ELSE <<>>)

C21_NoIdWhenChunked ==
    \A u \in FileIds :
        files[u].type = "large_chunked" => files[u].discord_message_id = 0

\* C21 as amended: a row has a remote message id only once it is complete,
\* and the id is that of a message of its own upload: the message carrying
\* the whole file when it was posted whole, the message carrying part 1 when
\* it was posted in parts.
C21_IdOfFirstMessage ==
    \A u \in FileIds :
        /\ files[u].discord_message_id # 0
              => /\ files[u].upload_complete
                 /\ files[u].discord_message_id \in MessagesOf(u)
                 /\ channel[files[u].discord_message_id].part =
                       (IF IsLargeFile(files[u].size_bytes) THEN 1 ELSE 0)
        /\ files[u].upload_complete => files[u].discord_message_id # 0

C21_Witness ==
    \E u \in FileIds :
        /\ files[u].type = "large_chunked"
        /\ files[u].upload_complete
        /\ AckedParts(u) = {1, 2, 3}
        /\ files[u].discord_message_id # 0
        /\ channel[files[u].discord_message_id].part = 1

\* the step in which the handler of slot r resolves its destination: the
\* first step of a single upload or of a download, the step of a batch
\* upload runner that leads to its loop
TransferStarts(r) ==
    \/ req[r].op = "idle" /\ req'[r].op \in {"upload", "download"}
    \/ /\ req[r].op = "batch_upload" /\ req[r].pc = "batch_begin"
       /\ req'[r].pc # "batch_begin"

\* in this step an unknown destination gets its row, a known one a new
\* last_used
ChannelResolved ==
    LET id == getChannelByDiscordId(ChannelId) IN
    IF id = 0
    THEN /\ Len(channels') = Len(channels) + 1
         /\ channels'[Len(channels')].discord_channel_id = ChannelId
    ELSE /\ Len(channels') = Len(channels)
         /\ channels'[id].last_used # channels[id].last_used

\* C22: every single upload, batch upload and download resolves the channel
\* row of its destination: an unknown destination gets a new row and a known
\* one gets its last_used updated.
C22_ChannelTouched ==
    [][\A r \in Slots : TransferStarts(r) => ChannelResolved]_vars

\* some attachment of the listing is named exactly name
ListedExactly(name) ==
    \E i \in 1..Len(ListMessages(channel)) :
        ListMessages(channel)[i].filename = name

\* C23: a download with isLarge = false lists the messages once, takes the
\* newest listed attachment whose name is exactly the requested one, fetches
\* its url once and returns those bytes; when no listed attachment has
\* exactly that name it fails with "File not found" and fetches nothing.
C23_ExactMatch ==
    LET rq == req[Main] IN
    (rq.op = "download" /\ ~rq.large)
        => /\ rq.lists = (IF rq.pc = "list" THEN 0 ELSE 1)
           /\ Len(rq.fetchLog) <= 1
           /\ rq.fileUrl # 0
                 => /\ channel[rq.fileUrl].filename = rq.name
                    /\ \A j \in (rq.fileUrl + 1)..Len(channel) :
                          channel[j].filename # rq.name
                    /\ \A i \in 1..Len(rq.fetchLog) : rq.fetchLog[i] = rq.fileUrl
           /\ (rq.pc = "done" /\ rq.error = NoError)
                 => /\ rq.fetchLog = <<rq.fileUrl>>
                    /\ rq.result = channel[rq.fileUrl].data
           /\ (rq.pc = "done" /\ rq.status = OK /\ rq.fileUrl = 0)
                 => /\ ~ListedExactly(rq.name)
                    /\ rq.error.msg = "File not found in the channel"
                    /\ rq.fetchLog = <<>>
                    /\ rq.result = <<>>
           /\ (rq.pc = "done" /\ rq.status = OK /\ ~ListedExactly(rq.name))
                 => rq.fileUrl = 0

C23_Witness ==
    LET rq == req[Main] IN
    /\ rq.op = "download" /\ ~rq.large /\ rq.pc = "done"
    /\ rq.error = NoError
    /\ rq.fileUrl = 1
    /\ Len(channel) >= 2
    /\ StartsWith(channel[Len(channel)].filename, rq.name \o <<PART>>)

\* the request ended on a remote call that failed
CallFailed(rq) == rq.error # NoError /\ rq.status \in FailStatuses

\* 1 when the upload attempt of row u met a failed post, else 0
FailedPosts(u) == IF attempt[u].failedAt > 0 THEN 1 ELSE 0

\* C24: no remote call is made twice.  An upload posts each part at most
\* once and stops at the first failed post; a download lists at most once,
\* fetches each attachment at most once and stops at the first failed call;
\* the failure that stopped it is the error it ends with.
C24_NoRetry ==
    /\ \A u \in FileIds :
          /\ Cardinality(MessagesOf(u)) = Cardinality(AckedParts(u))
          /\ attempt[u].posts = Cardinality(AckedParts(u)) + FailedPosts(u)
          /\ attempt[u].failedAt > 0
                => /\ ~attempt[u].returned
                   /\ attempt[u].posts =
                         (IF IsLargeFile(files[u].size_bytes)
                          THEN attempt[u].failedAt ELSE 1)
    /\ LET rq == req[Main] IN
       /\ rq.op = "download"
             => /\ rq.lists <= 1
                /\ \A i, j \in 1..Len(rq.fetchLog) :
                      i # j => rq.fetchLog[i] # rq.fetchLog[j]
                /\ rq.large
                      => Len(rq.fetchLog) =
                            Len(rq.downloadedParts)
                              + (IF CallFailed(rq) /\ rq.fileParts # <<>>
                                 THEN 1 ELSE 0)
                /\ rq.error # NoError => rq.pc = "done"
                /\ CallFailed(rq) => rq.error = DownloadError(rq.status)
       /\ rq.op = "upload"
             => /\ rq.error # NoError => rq.pc = "done"
                /\ CallFailed(rq) => rq.error = UploadError(rq.status)

C24_Witness ==
    LET rq == req[Main] IN
    /\ rq.op = "download" /\ rq.large /\ rq.pc = "done"
    /\ rq.status = 500
    /\ Len(rq.fileParts) = 3
    /\ Len(rq.fetchLog) = 2
    /\ \E u \in FileIds : attempt[u].failedAt = 2 /\ attempt[u].posts = 2

\* the chunked upload attempts of filename name
AttemptsOf(name) ==
    {u \in FileIds : files[u].filename = name /\ IsLargeFile(files[u].size_bytes)}

\* C25: after two chunked uploads of one filename that each posted some
\* part, at least one of them completing, to a channel whose attachments
\* named `${filename}.part...` all come from these uploads, a chunked
\* download of the filename succeeds and returns exactly the bytes of one
\* completed upload.
C25_NoMixing ==
    LET rq == req[Main] IN
    (/\ rq.op = "download" /\ rq.large /\ rq.pc = "done"
     /\ ~CallFailed(rq)
     /\ Cardinality(AttemptsOf(rq.name)) >= 2
     /\ \A u \in AttemptsOf(rq.name) : AckedParts(u) # {}
     /\ \E u \in AttemptsOf(rq.name) : attempt[u].returned
     /\ \A i \in 1..Len(channel) :
           StartsWith(channel[i].filename, rq.name \o <<PART>>)
               => channel[i].by \in AttemptsOf(rq.name))
        => /\ rq.error = NoError
           /\ \E u \in AttemptsOf(rq.name) :
                 /\ attempt[u].returned
                 /\ rq.result = Buffer(u, files[u].size_bytes)

\* a transfer that holds a temporary directory
HoldsTempDir(r) == req[r].pc # "done" /\ req[r].dir # <<>>

\* C26: two transfers in flight at the same time never hold the same
\* temporary directory.
C26_OwnTempDir ==
    \A r1, r2 \in Slots :
        (r1 # r2 /\ HoldsTempDir(r1) /\ HoldsTempDir(r2))
            => req[r1].dir # req[r2].dir

\* a batch runner that has ended
RunnerEnded(r) ==
    req[r].op \in {"batch_upload", "batch_download"} /\ req[r].pc = "done"

\* C27: the runner of a batch ends with the batch completed or
\* completed_with_errors and its completed_at set.
C27_BatchEnds ==
    \A r \in Slots :
        RunnerEnded(r)
            => /\ batches[req[r].batchId].status
                     \in {"completed", "completed_with_errors"}
               /\ batches[req[r].batchId].completed_at

\* C28: when uploads race for a destination no row exists for, at most one
\* channel row exists afterwards and no upload fails on the other's insert.
C28_CreateRace ==
    /\ Cardinality({i \in 1..Len(channels) :
                       channels[i].discord_channel_id = ChannelId}) <= 1
    /\ \A r \in Slots : req[r].error # DuplicateKey

\* C29: every attachment that uploadFile posts, a whole file or a part, is
\* at most CHUNK_SIZE bytes long.
C29_AttachmentSize ==
    \A i \in 1..Len(channel) : ByteLength(channel[i].data) <= CHUNK_SIZE

\* name is `${filename}.part` followed by a decimal integer
IsPartName(name, filename) ==
    /\ StartsWith(name, filename \o <<PART>>)
    /\ Len(name) > Len(filename) + 1
    /\ \A k \in (Len(filename) + 2)..Len(name) : DigitValue(name[k]) # NaN

\* C30: a chunked download of f selects only attachments named
\* `${f}.part` followed by a decimal integer, and its output holds bytes of
\* uploads of f only.
C30_OwnPartsOnly ==
    LET rq == req[Main] IN
    (rq.op = "download" /\ rq.large)
        => /\ \A k \in 1..Len(rq.fileParts) :
                 IsPartName(rq.fileParts[k].filename, rq.name)
           /\ \A k \in 1..Len(rq.result) :
                 files[rq.result[k].u].filename = rq.name

====
